---- MODULE Spec2Model ----
(***************************************************************************)
(* Model of the document store of drivechat-management:                    *)
(*   utils/db_manager.py      DatabaseManager (insert_document,            *)
(*                            get_document, search_similar_chunks)         *)
(*   services/item_service.py ItemService (get_item_by_id, update_item,    *)
(*                            delete_item, hard_delete_item,               *)
(*                            delete_conversation_items)                   *)
(*   models/item.py, models/embedding.py, models/message.py  the tables    *)
(*                            and their constraints                        *)
(*   utils/gdrive.py          GoogleDriveClient.download_folder            *)
(*                                                                         *)
(* The committed contents of the tables are `items` and `embeddings`.      *)
(* Every DatabaseManager call opens a session of its own (SessionLocal()), *)
(* so an insert_document call in flight keeps its rows in its own          *)
(* transaction (`ins`) until commit.  All ItemService objects share the    *)
(* one session DatabaseService.db; what that session has changed but not   *)
(* yet committed is `pend`.                                                *)
(*                                                                         *)
(* Item.owner / Item.owner_id are modelled as the one field `owner`.       *)
(* Time stamps are not modelled.                                           *)
(* A reader sees committed rows only (PostgreSQL READ COMMITTED); a        *)
(* statement is one step.  The requests that use the shared session run    *)
(* in FastAPI's thread pool, so delete_conversation_items is taken step by *)
(* step: another request's commit flushes what it has marked so far.       *)
(*                                                                         *)
(* Spec      one insert_document at a time, readers, single-Item requests  *)
(* SpecConc  overlapping insert_document calls, readers, hard delete       *)
(* SpecBulk  delete_conversation_items beside the single-Item requests     *)
(* SpecRace    insert_document calls for one id that overlap               *)
(* SpecList    the listings of ItemService and of the GET items route      *)
(* SpecSearch  searches under both query plans and with any limit          *)
(* SpecEmbed   process_document feeding insert_document                    *)
(* SpecMeta    insert_document with metadata that lacks values             *)
(* SpecPage    insert_document with nodes of any page label                *)
(* SpecMsg     deletes beside messages that cite the stored chunks         *)
(* SpecFail    storage failures in the mutating operations                 *)
(* SpecDrive   utils/gdrive.py download_folder on any small drive          *)
(***************************************************************************)
EXTENDS Integers, Sequences, FiniteSets, TLC

\* ---------------------------------------------------------------- bounds
MaxNodes == 2        \* longest node list handed to insert_document
MaxDepth == 2        \* largest max_depth handed to download_folder
MaxLimit == 2        \* largest LIMIT passed to search_similar_chunks

\* ---------------------------------------------------------------- domains
DocIds == {"d1", "d2"}
Owners == {"A", "B"}
Convs == {"c1", "c2"}
Sessions == {1, 2}
\* a vector column value: a 2-dimensional integer vector, or NULL
NULL == <<>>
Queries == {<<1, 0>>}

\* node.extra_info['page_label']: absent, or a decimal string
NoLabel == [kind |-> "none", n |-> 0]
IntLabel(n) == [kind |-> "int", n |-> n]
\* a decimal string that is not the plain numeral of n ("01", " 1"), and a
\* label that is no decimal string at all ("iv", "A-1")
PaddedLabel(n) == [kind |-> "padded", n |-> n]
TextLabel == [kind |-> "text", n |-> 0]

\* the nodes handed to insert_document: a chunk of page 1, and a chunk without
\* page label that has, or has not, been embedded
Nodes ==
    {[page_label |-> IntLabel(1), text |-> "t1", embedding |-> <<1, 0>>],
     [page_label |-> NoLabel, text |-> "t2", embedding |-> <<0, 1>>],
     [page_label |-> NoLabel, text |-> "t2", embedding |-> NULL]}
NodeLists == UNION {[1..n -> Nodes] : n \in 0..MaxNodes}

\* the Drive file behind a document id
FileNames == [d1 |-> "f1", d2 |-> "f2"]

\* d1 is a document of A in c1; d2 is a document of A or B, in c1 or c2
Metadata ==
    {m \in [id : DocIds, file_name : {"f1", "f2"}, mime_type : {"m"}, uri : {"u"},
            owner : Owners, conversation_id : Convs] :
        /\ m.file_name = FileNames[m.id]
        /\ m.id = "d1" => m.owner = "A" /\ m.conversation_id = "c1"
        /\ m.owner = "B" => m.conversation_id = "c1"}

\* a value a metadata dict can lack: the empty string, None (what
\* metadata_handler's .get() gives for a key Drive did not send), no key at all
Lacking == {"", "None", "missing"}
Checked == {"owner", "conversation_id", "mime_type", "uri"}

\* the metadata insert_document can be handed: complete, or lacking the value
\* of one of the checked keys
MetadataInputs ==
    Metadata \cup
    {[m EXCEPT ![k] = v] : m \in Metadata, k \in Checked, v \in Lacking}

VARIABLES
    items,        \* committed rows of table items
    embeddings,   \* committed rows of table embeddings
    ins,          \* per DatabaseManager session: the insert_document call in flight
    pend,         \* uncommitted changes held by the shared ItemService session
    bulk,         \* the delete_conversation_items call in flight
    softDeleted,  \* history: ids soft-deleted by delete_item and not reactivated or removed since
    proc,         \* the process_document call in flight, or what the last one returned
    drive,        \* the download_folder call in flight, or what the last one did
    messages,     \* committed rows of table messages
    last          \* the operation that took the last step, with its result

vars == <<items, embeddings, ins, pend, bulk, softDeleted, proc, drive, messages, last>>

\* ---------------------------------------------------------------- rows
\* models/item.py: one row of table items
ItemRow(metadata) ==
    [id |-> metadata.id, file_name |-> metadata.file_name,
     mime_type |-> metadata.mime_type, uri |-> metadata.uri,
     owner |-> metadata.owner,
     conversation_id |-> metadata.conversation_id, active |-> TRUE]

\* a conversion that ignores the label
PageOfDefault(node) == -1

\* db_manager.py:146  page = int(node.extra_info.get('page_label', -1))
PageOf(node) == IF node.page_label.kind = "none" THEN -1 ELSE node.page_label.n

\* db_manager.py:146  int() raises ValueError for a label that is no numeral
IntParses(node) == node.page_label.kind # "text"
LabelsParse(nodes) == \A i \in 1..Len(nodes) : IntParses(nodes[i])

\* models/embedding.py: one row of table embeddings; id stands for uuid4(),
\* here the position of the node in the ingestion of the Item
EmbeddingRow(i, item_id, node) ==
    [id |-> <<item_id, i>>, item_id |-> item_id, page |-> PageOf(node),
     chunk_text |-> node.text, embedding |-> node.embedding]

Store == [items |-> items, embeddings |-> embeddings]

\* ---------------------------------------------------------------- constraints
\* a table without the primary key
PrimaryKeyMissing(rows, id) == TRUE

\* items.id is the primary key: an INSERT of an id that is present fails
PrimaryKeyFree(rows, id) == \A r \in rows : r.id # id

\* db_manager.py:129-136 metadata['...']: a key that is not there raises
\* KeyError before the Item exists
KeysPresent(metadata) ==
    \A k \in {"file_name", "mime_type", "uri", "owner", "conversation_id"} :
        metadata[k] # "missing"

\* models/item.py:15-17 nullable=False: the INSERT fails on a NULL; the empty
\* string is a value
NotNull(metadata) ==
    \A k \in {"file_name", "mime_type", "uri"} : metadata[k] # "None"

\* models/item.py:18-19 conversation_id and owner_id are NOT NULL foreign keys:
\* the INSERT fails unless they name a stored conversation and user
ForeignKeysHold(metadata) ==
    /\ metadata.owner \in Owners
    /\ metadata.conversation_id \in Convs

\* a table without the unique constraint
UixItemPageMissing(rows, row) == TRUE

\* UniqueConstraint('item_id', 'page', name='uix_item_page')
UixItemPageFree(rows, row) ==
    \A r \in rows : ~(r.item_id = row.item_id /\ r.page = row.page)

\* ---------------------------------------------------------------- transactions
\* session.commit(): the rows of the transaction become visible together
Commit(store, txItems, txEmbeddings) ==
    [items |-> store.items \cup txItems,
     embeddings |-> store.embeddings \cup txEmbeddings]

\* a rollback that leaves behind what the transaction had flushed
RollbackKeepsFlushed(store, txItems, txEmbeddings) ==
    [items |-> store.items \cup txItems,
     embeddings |-> store.embeddings \cup txEmbeddings]

\* session.rollback(): nothing of the transaction reaches the tables
Rollback(store, txItems, txEmbeddings) == store

\* ---------------------------------------------------------------- insert_document
IdleIns ==
    [pc |-> "idle",
     meta |-> [id |-> "d1", file_name |-> "f1", mime_type |-> "m", uri |-> "u",
               owner |-> "A", conversation_id |-> "c1"],
     nodes |-> <<>>, flushed |-> 0]

\* the rows the transaction of session s has written and not committed
TxItems(s) == IF ins[s].pc = "flushing" THEN {ItemRow(ins[s].meta)} ELSE {}
TxEmbeddings(s) ==
    {EmbeddingRow(i, ins[s].meta.id, ins[s].nodes[i]) : i \in 1..ins[s].flushed}

NoLast ==
    [op |-> "init", owner |-> "-", id |-> "-", conv |-> "-", flag |-> FALSE,
     limit |-> 0, result |-> "-", count |-> 0, rows |-> 0, hits |-> <<>>,
     plan |-> "-", listed |-> {}, lacking |-> {}, waited |-> FALSE,
     active_only |-> "-"]

\* a step of a call that has not returned yet
InFlight(op) == [NoLast EXCEPT !.op = op, !.result = "pending"]

\* the checked keys whose value the metadata lacks
LackingKeys(metadata) == {k \in Checked : metadata[k] \in Lacking}

\* count: the number of nodes handed to the call; rows: the number of chunk
\* rows its transaction had written when it ended; flag: a storage failure;
\* lacking: the checked keys without a value
InsertResult(metadata, nodes, rows, result) ==
    [NoLast EXCEPT !.op = "insert_document", !.id = metadata.id,
                   !.count = Len(nodes), !.rows = rows, !.result = result,
                   !.lacking = LackingKeys(metadata)]

\* a unique index that lets an INSERT pass an uncommitted row of the same key
HeldByNone(s, id) == FALSE

\* models/item.py:14 the primary key index: another open transaction has
\* written a row of this id and has neither committed nor rolled back
HeldByOther(s, id) ==
    \E t \in Sessions \ {s} : ins[t].pc = "flushing" /\ ins[t].meta.id = id

\* db_manager.py:126-155: open a session, add the Item, flush it, build the
\* Embedding objects.  The INSERT of the Item waits while another open
\* transaction holds an uncommitted row with the same primary key: the call
\* is then "waiting" inside session.flush() and has written nothing.
\* A new session takes the lowest free place of `ins`.
InsertBegin(s, nodes, metadata) ==
    /\ UNCHANGED <<proc, drive, messages>>
    /\ ins[s].pc = "idle"
    /\ \A t \in Sessions : t < s => ins[t].pc # "idle"
    /\ UNCHANGED <<pend, bulk, softDeleted>>
    /\ IF \/ ~KeysPresent(metadata)
          \/ ~NotNull(metadata)
          \/ ~ForeignKeysHold(metadata)
          \/ ~PrimaryKeyFree(items, metadata.id)
          \/ ~HeldByOther(s, metadata.id) /\ ~LabelsParse(nodes)
       THEN \* KeyError at Item(...), IntegrityError at session.flush(), or
            \* ValueError in the loop over the nodes, before any chunk is
            \* written: except branch, rollback, return None
            /\ items' = Rollback(Store, {}, {}).items
            /\ embeddings' = Rollback(Store, {}, {}).embeddings
            /\ ins' = ins
            /\ last' = InsertResult(metadata, nodes, 0, "None")
       ELSE /\ ins' = [ins EXCEPT ![s] =
                          [pc |-> IF HeldByOther(s, metadata.id) THEN "waiting"
                                  ELSE "flushing",
                           meta |-> metadata, nodes |-> nodes, flushed |-> 0]]
            /\ UNCHANGED <<items, embeddings>>
            /\ last' = InFlight("insert_document")

\* db_manager.py:139 session.flush() goes on once the other transaction has
\* ended: with IntegrityError when that one has committed the id, with the
\* row written when it has rolled back
InsertResume(s) ==
    /\ UNCHANGED <<proc, drive, messages>>
    /\ ins[s].pc = "waiting"
    /\ ~HeldByOther(s, ins[s].meta.id)
    /\ UNCHANGED <<pend, bulk, softDeleted>>
    /\ IF ~PrimaryKeyFree(items, ins[s].meta.id) \/ ~LabelsParse(ins[s].nodes)
       THEN /\ items' = Rollback(Store, {}, {}).items
            /\ embeddings' = Rollback(Store, {}, {}).embeddings
            /\ ins' = [ins EXCEPT ![s] = IdleIns]
            /\ last' = [InsertResult(ins[s].meta, ins[s].nodes, 0, "None")
                            EXCEPT !.waited = TRUE]
       ELSE /\ ins' = [ins EXCEPT ![s].pc = "flushing"]
            /\ UNCHANGED <<items, embeddings>>
            /\ last' = InFlight("insert_document")

\* db_manager.py:157 session.commit() flushes the pending Embedding objects:
\* one INSERT per chunk, inside the transaction
InsertFlushChunk(s) ==
    /\ UNCHANGED <<proc, drive, messages>>
    /\ ins[s].pc = "flushing"
    /\ ins[s].flushed < Len(ins[s].nodes)
    /\ UNCHANGED <<pend, bulk, softDeleted>>
    /\ LET i == ins[s].flushed + 1
           row == EmbeddingRow(i, ins[s].meta.id, ins[s].nodes[i])
       IN IF UixItemPageFree(embeddings \cup TxEmbeddings(s), row)
          THEN /\ ins' = [ins EXCEPT ![s].flushed = i]
               /\ UNCHANGED <<items, embeddings>>
               /\ last' = InFlight("insert_document")
          ELSE \* IntegrityError: except branch, rollback, return None
               /\ items' = Rollback(Store, TxItems(s), TxEmbeddings(s)).items
               /\ embeddings' = Rollback(Store, TxItems(s), TxEmbeddings(s)).embeddings
               /\ ins' = [ins EXCEPT ![s] = IdleIns]
               /\ last' = InsertResult(ins[s].meta, ins[s].nodes, ins[s].flushed, "None")

\* db_manager.py:157-159 the COMMIT succeeds: return item
InsertCommit(s) ==
    /\ UNCHANGED <<proc, drive, messages>>
    /\ ins[s].pc = "flushing"
    /\ ins[s].flushed = Len(ins[s].nodes)
    /\ items' = Commit(Store, TxItems(s), TxEmbeddings(s)).items
    /\ embeddings' = Commit(Store, TxItems(s), TxEmbeddings(s)).embeddings
    /\ ins' = [ins EXCEPT ![s] = IdleIns]
    /\ last' = InsertResult(ins[s].meta, ins[s].nodes, ins[s].flushed, "Item")
    /\ UNCHANGED <<pend, bulk, softDeleted>>

\* db_manager.py:161-167 a storage failure (lost connection, failed INSERT,
\* failed COMMIT) at the point the call has reached: rollback, return None
InsertFail(s) ==
    /\ UNCHANGED <<proc, drive, messages>>
    /\ ins[s].pc # "idle"
    /\ items' = Rollback(Store, TxItems(s), TxEmbeddings(s)).items
    /\ embeddings' = Rollback(Store, TxItems(s), TxEmbeddings(s)).embeddings
    /\ ins' = [ins EXCEPT ![s] = IdleIns]
    /\ last' = [InsertResult(ins[s].meta, ins[s].nodes, ins[s].flushed, "None")
                    EXCEPT !.flag = TRUE]
    /\ UNCHANGED <<pend, bulk, softDeleted>>

\* ---------------------------------------------------------------- process_document
\* services/embedding.py:36-38: what the reader and the SentenceSplitter hand
\* on, a node per chunk with its page label and text and no vector yet
Chunks == {[page_label |-> n.page_label, text |-> n.text] : n \in Nodes}
ChunkLists == UNION {[1..n -> Chunks] : n \in 0..MaxNodes}

\* embed_model.aget_text_embedding(text) when it succeeds: the vector of the
\* text, different texts have different vectors
Embed(text) == IF text = "t1" THEN <<1, 0>> ELSE <<0, 1>>

\* n: the chunks of the document; i: the embedding calls made; failed: one of
\* them raised; nodes: the local list, then the list returned
IdleProc == [pc |-> "idle", nodes |-> <<>>, n |-> 0, i |-> 0, failed |-> FALSE]

ProcessLast(p, result) ==
    [NoLast EXCEPT !.op = "process_document", !.count = p.n, !.rows = p.i,
                   !.result = result]

\* a loop that gives the vector to the node at the mirrored position
WithEmbeddingMirrored(nodes, i, v) ==
    [nodes EXCEPT ![Len(nodes) + 1 - i].embedding = v]

\* embedding.py:41-44 node.embedding = await ...: the vector goes to the node
\* whose text was sent
WithEmbedding(nodes, i, v) == [nodes EXCEPT ![i].embedding = v]

\* a loop that leaves the node without vector and goes on
AfterEmbedFailureSkips(p) == [p EXCEPT !.i = p.i + 1, !.failed = TRUE]

\* embedding.py:48-49 the exception leaves the loop: the call raises, the
\* caller gets no list
AfterEmbedFailure(p) ==
    [p EXCEPT !.pc = "raised", !.nodes = <<>>, !.i = p.i + 1, !.failed = TRUE]

\* embedding.py:34-38 a call begins: load and split
ProcessBegin(chunks) ==
    /\ proc.pc # "embedding"
    /\ proc' = [pc |-> "embedding",
                nodes |-> [k \in 1..Len(chunks) |->
                              [page_label |-> chunks[k].page_label,
                               text |-> chunks[k].text, embedding |-> NULL]],
                n |-> Len(chunks), i |-> 0, failed |-> FALSE]
    /\ last' = InFlight("process_document")
    /\ UNCHANGED <<items, embeddings, ins, pend, bulk, softDeleted, drive, messages>>

\* embedding.py:41-44 one turn of the loop: the awaited call returns a vector
\* or raises (the client has given up on the text)
ProcessEmbed(ok) ==
    /\ proc.pc = "embedding"
    /\ proc.i < Len(proc.nodes)
    /\ proc' = IF ok
               THEN [proc EXCEPT !.nodes = WithEmbedding(proc.nodes, proc.i + 1,
                                              Embed(proc.nodes[proc.i + 1].text)),
                                 !.i = proc.i + 1]
               ELSE AfterEmbedFailure(proc)
    /\ last' = IF proc'.pc = "raised" THEN ProcessLast(proc', "Exception")
               ELSE InFlight("process_document")
    /\ UNCHANGED <<items, embeddings, ins, pend, bulk, softDeleted, drive, messages>>

\* embedding.py:46 return nodes
ProcessReturn ==
    /\ proc.pc = "embedding"
    /\ proc.i = Len(proc.nodes)
    /\ proc' = [proc EXCEPT !.pc = "returned"]
    /\ last' = ProcessLast(proc, "nodes")
    /\ UNCHANGED <<items, embeddings, ins, pend, bulk, softDeleted, drive, messages>>

\* ---------------------------------------------------------------- get_document
\* db_manager.py:173-187
GetDocumentRows(doc_id) == {r \in items : r.id = doc_id}

GetDocument(doc_id) ==
    /\ UNCHANGED <<proc, drive, messages>>
    /\ last' = [NoLast EXCEPT !.op = "get_document", !.id = doc_id,
                   !.result = IF GetDocumentRows(doc_id) = {} THEN "None" ELSE "Item"]
    /\ UNCHANGED <<items, embeddings, ins, pend, bulk, softDeleted>>

\* ---------------------------------------------------------------- search_similar_chunks
\* pgvector's <=> is the cosine distance 1 - cos(a, b).  Distances are only
\* compared, and cos(q, a) >= cos(q, b) iff
\*   sgnsq(q.a) * |b|^2 >= sgnsq(q.b) * |a|^2   with sgnsq(x) = x * |x|
\* A NULL vector has a NULL distance, and ORDER BY ... ASC puts NULLs last.
Dot(a, b) == a[1] * b[1] + a[2] * b[2]
SgnSq(x) == IF x < 0 THEN 0 - x * x ELSE x * x
\* the order of ORDER BY ... DESC: farthest first
CosGeqDescending(q, a, b) ==
    IF b = NULL THEN TRUE
    ELSE IF a = NULL THEN FALSE
    ELSE SgnSq(Dot(q, a)) * Dot(b, b) =< SgnSq(Dot(q, b)) * Dot(a, a)

CosGeq(q, a, b) ==
    IF b = NULL THEN TRUE
    ELSE IF a = NULL THEN FALSE
    ELSE SgnSq(Dot(q, a)) * Dot(b, b) >= SgnSq(Dot(q, b)) * Dot(a, a)

\* 1 - (e.embedding <=> :query_embedding), kept as the fraction
\* <<sgnsq(q.v), |q|^2 |v|^2>> (the signed square of the cosine)
Similarity(q, v) ==
    IF v = NULL THEN NULL ELSE <<SgnSq(Dot(q, v)), Dot(q, q) * Dot(v, v)>>

\* a reader that sees what open transactions have written
ReadUncommitted(committed, written) == committed \cup written

\* db_manager.py:207 session = self.SessionLocal(): the statement runs in a
\* transaction of its own, at PostgreSQL's READ COMMITTED it sees the
\* committed rows and none that another transaction has written
ReadCommitted(committed, written) == committed

\* the rows the insert_document calls in flight have written
WrittenItems == UNION {TxItems(s) : s \in Sessions}
WrittenEmbeddings == UNION {TxEmbeddings(s) : s \in Sessions}

\* db_manager.py:210 active_filter
ActiveFilter(i, active_only) == active_only => i.active

\* the join without the test for a NULL vector
JoinedWithNull(active_only) ==
    {je \in ReadCommitted(embeddings, WrittenEmbeddings)
              \X ReadCommitted(items, WrittenItems) :
        /\ je[2].id = je[1].item_id
        /\ ActiveFilter(je[2], active_only)}

\* db_manager.py:221-224 FROM embeddings e JOIN items i ON i.id = e.item_id
\*                       WHERE e.embedding IS NOT NULL [AND i.active = true]
Joined(active_only) ==
    {je \in ReadCommitted(embeddings, WrittenEmbeddings)
              \X ReadCommitted(items, WrittenItems) :
        /\ je[2].id = je[1].item_id
        /\ je[1].embedding # NULL
        /\ ActiveFilter(je[2], active_only)}

\* db_manager.py:214-220 the selected columns
Hit(q, je) ==
    [doc_id |-> je[2].id, owner |-> je[2].owner, chunk_text |-> je[1].chunk_text,
     page |-> je[1].page, similarity |-> Similarity(q, je[1].embedding)]

\* db_manager.py:225-226 ORDER BY e.embedding <=> :query_embedding LIMIT :limit
\* every order the rows can come back in: nearest first, ties in any order
RECURSIVE TopK(_, _, _)
TopK(q, rows, k) ==
    IF k = 0 \/ rows = {} THEN {<<>>}
    ELSE LET nearest == {r \in rows :
                            \A o \in rows : CosGeq(q, r[1].embedding, o[1].embedding)}
         IN UNION {{<<Hit(q, r)>> \o t : t \in TopK(q, rows \ {r}, k - 1)} : r \in nearest}

SearchLast(requester, limit, active_only, plan, hits, result) ==
    [NoLast EXCEPT !.op = "search", !.owner = requester, !.limit = limit,
                   !.flag = active_only, !.plan = plan, !.hits = hits,
                   !.result = result]

\* db_manager.py:189-235, the statement executed by a sequential scan and a
\* sort; the requester is the user the caller acts for: it is not a parameter
\* of search_similar_chunks.  The limit goes to LIMIT :limit as it is given:
\* PostgreSQL refuses a negative one ("LIMIT must not be negative"), the
\* exception passes through the try/finally to the caller.
SearchSimilarChunks(requester, q, limit, active_only) ==
    /\ UNCHANGED <<proc, drive, messages>>
    /\ IF limit < 0
       THEN last' = SearchLast(requester, limit, active_only, "seq", <<>>, "error")
       ELSE \E h \in TopK(q, Joined(active_only), limit) :
               last' = SearchLast(requester, limit, active_only, "seq", h, "rows")
    /\ UNCHANGED <<items, embeddings, ins, pend, bulk, softDeleted>>

\* db_manager.py:46-60 embeddings_embedding_idx USING ivfflat (embedding
\* vector_cosine_ops) WITH (lists = 100): the index keeps every vector in the
\* list of the centre nearest to it, and a scan reads the lists of the centres
\* nearest to the query (ivfflat.probes, 1 unless set; the code does not set
\* it).  The centres are not known to the program, so the vectors that share
\* the list of the query are any set of stored vectors that holds the query
\* vector itself.
Vectors == {n.embedding : n \in Nodes} \ {NULL}
ProbedLists(q) == {L \in SUBSET Vectors : q \in Vectors => q \in L}

\* the rows an index scan passes on: the join and the WHERE clause are applied
\* to the rows of the probed list
IndexScanned(q, active_only) ==
    {{je \in Joined(active_only) : je[1].embedding \in L} : L \in ProbedLists(q)}

\* db_manager.py:189-235, the statement executed by a scan of the ivfflat index
SearchSimilarChunksIvfflat(requester, q, limit, active_only) ==
    /\ UNCHANGED <<proc, drive, messages>>
    /\ IF limit < 0
       THEN last' = SearchLast(requester, limit, active_only, "ivfflat", <<>>, "error")
       ELSE \E rows \in IndexScanned(q, active_only) :
               \E h \in TopK(q, rows, limit) :
                  last' = SearchLast(requester, limit, active_only, "ivfflat", h, "rows")
    /\ UNCHANGED <<items, embeddings, ins, pend, bulk, softDeleted>>

\* ---------------------------------------------------------------- the shared session
\* dependencies/database.py:38 self.db: one Session for every ItemService.
\* pend.inactive: ids of loaded Items set to active=False and not yet committed
\* pend.deleted:  ids of loaded Items passed to session.delete() and not yet committed
\* pend.failed:   a flush or COMMIT of the session has failed and nobody has
\*                called session.rollback() since
NoPend == [inactive |-> {}, deleted |-> {}, failed |-> FALSE]

\* a session that loses the assignment item.active = False
ViewItemsStaysActive(p) == {r \in items : r.id \notin p.deleted}

\* what a query through the shared session returns (autoflush, then SELECT)
ViewItems(p) ==
    {[i EXCEPT !.active = IF i.id \in p.inactive THEN FALSE ELSE i.active] :
        i \in {r \in items : r.id \notin p.deleted}}

\* a delete that does not reach the chunks
CascadeMissing(rows, deletedIds) == rows

\* models/item.py:26 cascade="all, delete-orphan" and embedding.py:17
\* ondelete="CASCADE": the chunks of a deleted Item go with it
CascadeEmbeddings(rows, deletedIds) == {e \in rows : e.item_id \notin deletedIds}

\* models/message.py:14, 18: one row of table messages; source_embedding_id
\* is NULL or the id of the chunk the message cites
MessageIds == {"m1", "m2"}
MessageRow(id, source) == [id |-> id, source_embedding_id |-> source]

\* models/message.py:18 ForeignKey('embeddings.id'), nullable=True
SourceExists(rows, source) == source = NULL \/ \E e \in rows : e.id = source

\* a delete of chunks that leaves the messages as they are
MessagesKeepSource(msgs, rows, deletedIds) == msgs

\* models/embedding.py:25 relationship("Message", ...) without a delete
\* cascade: when the session deletes an Embedding, the flush first sets
\* source_embedding_id of the messages that cite it to NULL
MessagesAfterDelete(msgs, rows, deletedIds) ==
    {[m EXCEPT !.source_embedding_id =
         IF \E e \in rows : e.id = @ /\ e.item_id \in deletedIds THEN NULL ELSE @] :
        m \in msgs}

\* self.session.commit(): flush everything the session holds, then COMMIT
SharedCommit(p) ==
    [items |-> ViewItems(p),
     embeddings |-> CascadeEmbeddings(embeddings, p.deleted),
     messages |-> MessagesAfterDelete(messages, embeddings, p.deleted)]

\* a row of table messages is written (by the chat service, which is not
\* part of this repository) and committed: it cites a stored chunk, or none
AddMessage(id, source) ==
    /\ \A m \in messages : m.id # id
    /\ SourceExists(embeddings, source)
    /\ messages' = messages \cup {MessageRow(id, source)}
    /\ last' = [NoLast EXCEPT !.op = "add_message", !.id = id]
    /\ UNCHANGED <<items, embeddings, ins, pend, bulk, softDeleted, proc, drive>>

\* matched: the number of Items the query returned; todo: those the loop has
\* not reached; live: those whose row no commit has removed since the query
IdleBulk ==
    [pc |-> "idle", conv |-> "-", owner |-> "-", permanent |-> FALSE,
     matched |-> 0, todo |-> {}, live |-> {}, count |-> 0]

\* a commit that removes rows detaches the objects another request still holds
BulkAfterCommit(p) == [bulk EXCEPT !.live = bulk.live \ p.deleted]

ItemLast(op, owner, item_id, result) ==
    [NoLast EXCEPT !.op = op, !.owner = owner, !.id = item_id, !.result = result]

\* the lookup without the owner filter
GetItemByIdAnyOwner(p, owner, item_id) == {i \in ViewItems(p) : i.id = item_id}

\* item_service.py:13-18
GetItemByIdRows(p, owner, item_id) ==
    {i \in ViewItems(p) : i.id = item_id /\ i.owner = owner}

GetItemById(owner, item_id) ==
    /\ ~pend.failed
    /\ UNCHANGED <<proc, drive, messages>>
    /\ last' = ItemLast("get_item_by_id", owner, item_id,
                        IF GetItemByIdRows(pend, owner, item_id) = {} THEN "None" ELSE "Item")
    /\ UNCHANGED <<items, embeddings, ins, pend, bulk, softDeleted>>

\* ---------------------------------------------------------------- listings
\* the active_only argument of a call: left out, or given
ActiveOnlyArgs == {"omitted", "true", "false"}

\* item_service.py:21, 34, 45  active_only: bool = True
ServiceActiveOnly(arg) == IF arg = "omitted" THEN TRUE ELSE arg = "true"

\* item_routes.py:31  active_only: bool = False
RouteActiveOnly(arg) == IF arg = "omitted" THEN FALSE ELSE arg = "true"

\* conversations.user_id: c1 is a conversation of A, c2 one of B
ConversationUser == [c1 |-> "A", c2 |-> "B"]

\* the search terms: none, one that is part of every file name, a whole name
SearchTerms == {"", "f", "f1"}

\* item_service.py:54 Item.file_name.ilike(f"%{search_term}%")
Ilike(file_name, search_term) == search_term = "f" \/ search_term = file_name

\* item_service.py:28-32
GetItemsByOwnerRows(p, owner, active_only) ==
    {i \in ViewItems(p) : i.owner = owner /\ ActiveFilter(i, active_only)}

\* item_service.py:36-39
GetItemsByConversationRows(p, conversation, active_only) ==
    {i \in ViewItems(p) : i.conversation_id = conversation /\ ActiveFilter(i, active_only)}

\* item_service.py:49-69; mime_type is "None" when it is not given
SearchItemsRows(p, search_term, owner, mime_type, active_only) ==
    {i \in ViewItems(p) :
        /\ i.owner = owner
        /\ search_term # "" => Ilike(i.file_name, search_term)
        /\ mime_type # "None" => i.mime_type = mime_type
        /\ ActiveFilter(i, active_only)}

ListLast(op, owner, conversation, arg, rows, result) ==
    [NoLast EXCEPT !.op = op, !.owner = owner, !.conv = conversation,
                   !.active_only = arg, !.listed = rows, !.result = result]

GetItemsByOwner(owner, arg) ==
    /\ ~pend.failed
    /\ last' = ListLast("get_items_by_owner", owner, "-", arg,
                        GetItemsByOwnerRows(pend, owner, ServiceActiveOnly(arg)), "rows")
    /\ UNCHANGED <<items, embeddings, ins, pend, bulk, softDeleted, proc, drive, messages>>

GetItemsByConversation(conversation, arg) ==
    /\ ~pend.failed
    /\ last' = ListLast("get_items_by_conversation", "-", conversation, arg,
                        GetItemsByConversationRows(pend, conversation, ServiceActiveOnly(arg)),
                        "rows")
    /\ UNCHANGED <<items, embeddings, ins, pend, bulk, softDeleted, proc, drive, messages>>

SearchItems(search_term, owner, mime_type, arg) ==
    /\ ~pend.failed
    /\ last' = ListLast("search_items", owner, "-", arg,
                        SearchItemsRows(pend, search_term, owner, mime_type,
                                        ServiceActiveOnly(arg)), "rows")
    /\ UNCHANGED <<items, embeddings, ins, pend, bulk, softDeleted, proc, drive, messages>>

\* item_routes.py:26-61 GET items for the user of the token; conversation_id
\* is "None" when it is not given.  The route passes its own active_only on.
GetItems(user, search, mime_type, conversation_id, arg) ==
    /\ ~pend.failed
    /\ last' =
          IF search # ""
          THEN ListLast("GET items", user, "-", arg,
                        SearchItemsRows(pend, search, user, mime_type, RouteActiveOnly(arg)),
                        "rows")
          ELSE IF conversation_id # "None"
          THEN IF ConversationUser[conversation_id] # user
               THEN ListLast("GET items", user, conversation_id, arg, {}, "404")
               ELSE ListLast("GET items", user, conversation_id, arg,
                             GetItemsByConversationRows(pend, conversation_id,
                                                        RouteActiveOnly(arg)), "rows")
          ELSE ListLast("GET items", user, "-", arg,
                        GetItemsByOwnerRows(pend, user, RouteActiveOnly(arg)), "rows")
    /\ UNCHANGED <<items, embeddings, ins, pend, bulk, softDeleted, proc, drive, messages>>

\* item_service.py:108-118
DeleteItem(owner, item_id) ==
    /\ ~pend.failed
    /\ UNCHANGED <<proc, drive>>
    /\ UNCHANGED ins
    /\ IF GetItemByIdRows(pend, owner, item_id) = {}
       THEN /\ last' = ItemLast("delete_item", owner, item_id, "False")
            /\ UNCHANGED <<items, embeddings, pend, bulk, softDeleted, messages>>
       ELSE LET p == [pend EXCEPT !.inactive = @ \cup {item_id}]
            IN /\ items' = SharedCommit(p).items
               /\ embeddings' = SharedCommit(p).embeddings
               /\ messages' = SharedCommit(p).messages
               /\ pend' = NoPend
               /\ bulk' = BulkAfterCommit(p)
               /\ softDeleted' = (softDeleted \cup {item_id}) \ p.deleted
               /\ last' = ItemLast("delete_item", owner, item_id, "True")

\* item_service.py:120-128
HardDeleteItem(owner, item_id) ==
    /\ ~pend.failed
    /\ UNCHANGED <<proc, drive>>
    /\ UNCHANGED ins
    /\ IF GetItemByIdRows(pend, owner, item_id) = {}
       THEN /\ last' = ItemLast("hard_delete_item", owner, item_id, "False")
            /\ UNCHANGED <<items, embeddings, pend, bulk, softDeleted, messages>>
       ELSE LET p == [pend EXCEPT !.deleted = @ \cup {item_id}]
            IN /\ items' = SharedCommit(p).items
               /\ embeddings' = SharedCommit(p).embeddings
               /\ messages' = SharedCommit(p).messages
               /\ pend' = NoPend
               /\ bulk' = BulkAfterCommit(p)
               /\ softDeleted' = softDeleted \ p.deleted
               /\ last' = [ItemLast("hard_delete_item", owner, item_id, "True") EXCEPT
                               !.rows = Cardinality({e \in embeddings : e.item_id = item_id})]

\* item_routes.py:82-101 with item_service.py:98-106: PUT {active: ...};
\* active=true puts a soft-deleted Item back
UpdateItem(owner, item_id, active) ==
    /\ ~pend.failed
    /\ UNCHANGED <<proc, drive>>
    /\ UNCHANGED ins
    /\ IF GetItemByIdRows(pend, owner, item_id) = {}
       THEN /\ last' = ItemLast("update_item", owner, item_id, "None")
            /\ UNCHANGED <<items, embeddings, pend, bulk, softDeleted, messages>>
       ELSE LET p == [pend EXCEPT !.inactive = @ \ {item_id}]
            IN /\ items' = {[i EXCEPT !.active = IF i.id = item_id THEN active ELSE i.active] :
                               i \in SharedCommit(p).items}
               /\ embeddings' = SharedCommit(p).embeddings
               /\ messages' = SharedCommit(p).messages
               /\ pend' = NoPend
               /\ bulk' = BulkAfterCommit(p)
               /\ softDeleted' = (IF active THEN softDeleted \ {item_id} ELSE softDeleted)
                                    \ p.deleted
               /\ last' = [ItemLast("update_item", owner, item_id, "Item") EXCEPT
                               !.flag = active]

\* ---------------------------------------------------------------- delete_conversation_items
\* the query without the owner filter
ConversationItemsAnyOwner(p, conversation, owner) ==
    {i \in ViewItems(p) : i.conversation_id = conversation}

\* item_service.py:143-146 the filter of the query
ConversationItems(p, conversation, owner) ==
    {i \in ViewItems(p) : i.conversation_id = conversation /\ i.owner = owner}

BulkLast(result, count) ==
    [NoLast EXCEPT !.op = "delete_conversation_items", !.owner = bulk.owner,
                   !.conv = bulk.conv, !.flag = bulk.permanent,
                   !.result = result, !.count = count]

\* item_service.py:143-152
BulkQuery(conversation, owner, permanent) ==
    /\ ~pend.failed
    /\ UNCHANGED <<proc, drive, messages>>
    /\ bulk.pc = "idle"
    /\ UNCHANGED <<items, embeddings, ins, pend, softDeleted>>
    /\ LET ids == {i.id : i \in ConversationItems(pend, conversation, owner)}
       IN IF ids = {}
          THEN /\ bulk' = bulk
               /\ last' = [NoLast EXCEPT !.op = "delete_conversation_items",
                              !.owner = owner, !.conv = conversation,
                              !.flag = permanent, !.result = "done", !.count = 0]
          ELSE /\ bulk' = [pc |-> "loop", conv |-> conversation, owner |-> owner,
                           permanent |-> permanent, matched |-> Cardinality(ids),
                           todo |-> ids, live |-> ids, count |-> 0]
               /\ last' = InFlight("delete_conversation_items")

\* item_service.py:153-159 one turn of the loop
BulkMark(item_id) ==
    /\ ~pend.failed
    /\ UNCHANGED <<proc, drive, messages>>
    /\ bulk.pc = "loop"
    /\ item_id \in bulk.todo
    /\ bulk' = [bulk EXCEPT !.todo = @ \ {item_id}, !.count = @ + 1]
    /\ pend' = IF item_id \notin bulk.live THEN pend
               ELSE IF bulk.permanent
               THEN [pend EXCEPT !.deleted = @ \cup {item_id}]
               ELSE [pend EXCEPT !.inactive = @ \cup {item_id}]
    /\ last' = InFlight("delete_conversation_items")
    /\ UNCHANGED <<items, embeddings, ins, softDeleted>>

\* item_service.py:161-167
BulkCommit ==
    /\ ~pend.failed
    /\ UNCHANGED <<proc, drive>>
    /\ bulk.pc = "loop"
    /\ bulk.todo = {}
    /\ items' = SharedCommit(pend).items
    /\ embeddings' = SharedCommit(pend).embeddings
    /\ messages' = SharedCommit(pend).messages
    /\ pend' = NoPend
    /\ bulk' = IdleBulk
    /\ softDeleted' = softDeleted \ pend.deleted
    /\ last' = BulkLast("done", bulk.count)
    /\ UNCHANGED ins

\* ---------------------------------------------------------------- storage failures
\* item_service.py:105, 117, 127: session.commit() of update_item, delete_item
\* or hard_delete_item fails (lost connection, failed UPDATE or DELETE, failed
\* COMMIT) after the Item was found.  The database rolls the transaction
\* back; the exception leaves the method, which has no except branch, and
\* the session stays in its failed transaction.
CommitFails(op, owner, item_id) ==
    /\ ~pend.failed
    /\ GetItemByIdRows(pend, owner, item_id) # {}
    /\ pend' = [NoPend EXCEPT !.failed = TRUE]
    /\ last' = ItemLast(op, owner, item_id, "error")
    /\ UNCHANGED <<items, embeddings, ins, bulk, softDeleted, proc, drive, messages>>

\* item_service.py:161 session.commit() of delete_conversation_items fails
BulkCommitFails ==
    /\ ~pend.failed
    /\ bulk.pc = "loop"
    /\ bulk.todo = {}
    /\ pend' = [NoPend EXCEPT !.failed = TRUE]
    /\ bulk' = IdleBulk
    /\ last' = BulkLast("error", 0)
    /\ UNCHANGED <<items, embeddings, ins, softDeleted, proc, drive, messages>>

\* item_service.py:16-17: the query of a request that comes after the
\* failure runs on the same session (dependencies/database.py:38): the
\* session refuses every statement until rollback() is called, which
\* ItemService never does, and raises InvalidRequestError
SessionRaises(op, owner, item_id) ==
    /\ pend.failed
    /\ last' = ItemLast(op, owner, item_id, "InvalidRequestError")
    /\ UNCHANGED <<items, embeddings, ins, pend, bulk, softDeleted, proc, drive, messages>>

\* item_service.py:153-159: the loop of a bulk delete that was under way when
\* the session failed touches an expired Item and raises
BulkRaises ==
    /\ pend.failed
    /\ bulk.pc = "loop"
    /\ bulk' = IdleBulk
    /\ last' = BulkLast("InvalidRequestError", 0)
    /\ UNCHANGED <<items, embeddings, ins, pend, softDeleted, proc, drive, messages>>

\* ---------------------------------------------------------------- download_folder
\* the folder download_folder is called for, and the folders that may lie
\* below it
RootFolder == "r"
SubFolders == {"a", "b", "c"}

\* a drive: the parent of every subfolder, "-" for a folder that is not
\* there.  A folder lies in the root or in a folder named before it, so the
\* folders form a finite tree.
ParentsOf(f) ==
    IF f = "a" THEN {"r", "-"}
    ELSE IF f = "b" THEN {"r", "a", "-"}
    ELSE {"r", "a", "b", "-"}

Trees == {tree \in [SubFolders -> {"r", "a", "b", "-"}] :
             \A f \in SubFolders : tree[f] \in ParentsOf(f)}

\* gdrive.py:86 "'<folder_id>' in parents": the subfolders of the folder and
\* its one file (folder c holds no file)
FolderContents(tree, folder_id) ==
    {[kind |-> "folder", id |-> f] : f \in {g \in SubFolders : tree[g] = folder_id}}
        \cup (IF folder_id = "c" THEN {} ELSE {[kind |-> "file", id |-> folder_id]})

\* gdrive.py:72-108 list_folder_contents answers [] when the request fails
ListFolderContents(tree, folder_id, ok) ==
    IF ok THEN FolderContents(tree, folder_id) ELSE {}

\* a traversal that never stops descending
TooDeepNever(depth, max_depth) == FALSE

\* gdrive.py:210  if max_depth != -1 and depth > max_depth: return True
TooDeep(depth, max_depth) == max_depth # -1 /\ depth > max_depth

\* one call of _process_folder on the call stack
Frame(folder_id, depth) ==
    [folder |-> folder_id, depth |-> depth, pc |-> "enter", todo |-> {}, success |-> TRUE]

\* listed, downloaded: the folders listed and the files fetched, each with the
\* depth argument of the call that did it
IdleDrive ==
    [pc |-> "idle", max_depth |-> -1, tree |-> [f \in SubFolders |-> "-"],
     stack |-> <<>>, listed |-> {}, downloaded |-> {}, success |-> TRUE,
     listFailed |-> FALSE]

DriveLast(d) ==
    [NoLast EXCEPT !.op = "download_folder",
                   !.result = IF d.pc = "returned"
                              THEN (IF d.success THEN "success" ELSE "failure")
                              ELSE "pending"]

\* a call of _process_folder returns `result` to its caller: gdrive.py:236-241
\* `if not self._process_folder(...): success = False`, and gdrive.py:339-357
\* for the outermost call
ReturnTo(d, result) ==
    LET n == Len(d.stack)
    IN IF n = 1
       THEN [d EXCEPT !.stack = <<>>, !.pc = "returned", !.success = result]
       ELSE [d EXCEPT !.stack =
                SubSeq(d.stack, 1, n - 2) \o
                    <<[d.stack[n - 1] EXCEPT !.success = @ /\ result]>>]

\* gdrive.py:294-347 download_folder: the first call gets depth 0
DownloadFolder(tree, max_depth) ==
    /\ drive.pc # "running"
    /\ drive' = [IdleDrive EXCEPT !.pc = "running", !.max_depth = max_depth,
                                  !.tree = tree, !.stack = <<Frame(RootFolder, 0)>>]
    /\ last' = DriveLast(drive')
    /\ UNCHANGED <<items, embeddings, ins, pend, bulk, softDeleted, proc, messages>>

\* gdrive.py:210-220 the head of _process_folder: the depth test, the listing,
\* the early return for a folder without items
ProcessFolderEnter(ok) ==
    /\ drive.pc = "running"
    /\ LET n == Len(drive.stack)
           top == drive.stack[n]
       IN /\ top.pc = "enter"
          /\ drive' =
                IF TooDeep(top.depth, drive.max_depth)
                THEN ReturnTo(drive, TRUE)
                ELSE LET found == ListFolderContents(drive.tree, top.folder, ok)
                         d == [drive EXCEPT !.listed = @ \cup {<<top.folder, top.depth>>},
                                            !.listFailed = @ \/ ~ok]
                     IN IF found = {}
                        THEN ReturnTo(d, TRUE)
                        ELSE [d EXCEPT !.stack[n] = [top EXCEPT !.pc = "loop", !.todo = found]]
    /\ last' = DriveLast(drive')
    /\ UNCHANGED <<items, embeddings, ins, pend, bulk, softDeleted, proc, messages>>

\* gdrive.py:222-289 one turn of the loop, for the items in the order the
\* listing gave them (any order): a subfolder is entered with depth + 1, a
\* file is fetched into the current folder, and a failed fetch makes the
\* call unsuccessful.  The filters file_types and skip_existing only leave
\* files out and are not modelled.
ProcessItem(item, ok) ==
    /\ drive.pc = "running"
    /\ LET n == Len(drive.stack)
           top == drive.stack[n]
           rest == [top EXCEPT !.todo = @ \ {item}]
       IN /\ top.pc = "loop"
          /\ item \in top.todo
          /\ drive' =
                IF item.kind = "folder"
                THEN [drive EXCEPT !.stack =
                         SubSeq(drive.stack, 1, n - 1) \o
                             <<rest, Frame(item.id, top.depth + 1)>>]
                ELSE [drive EXCEPT !.stack[n] = [rest EXCEPT !.success = @ /\ ok],
                                   !.downloaded = @ \cup {<<item.id, top.depth>>}]
    /\ last' = DriveLast(drive')
    /\ UNCHANGED <<items, embeddings, ins, pend, bulk, softDeleted, proc, messages>>

\* gdrive.py:291-292 the loop is over: return success
ProcessFolderReturn ==
    /\ drive.pc = "running"
    /\ LET top == drive.stack[Len(drive.stack)]
       IN /\ top.pc = "loop"
          /\ top.todo = {}
          /\ drive' = ReturnTo(drive, top.success)
    /\ last' = DriveLast(drive')
    /\ UNCHANGED <<items, embeddings, ins, pend, bulk, softDeleted, proc, messages>>

\* ---------------------------------------------------------------- specification
Init ==
    /\ items = {}
    /\ embeddings = {}
    /\ ins = [s \in Sessions |-> IdleIns]
    /\ pend = NoPend
    /\ bulk = IdleBulk
    /\ softDeleted = {}
    /\ proc = IdleProc
    /\ drive = IdleDrive
    /\ messages = {}
    /\ last = NoLast

\* the calls of DatabaseManager, each in a session of its own; calls for one
\* and the same id do not overlap here (they do in SpecRace)
InsertDocument(sessions, lists) ==
    \/ \E s \in sessions, nodes \in lists, metadata \in Metadata :
          ~HeldByOther(s, metadata.id) /\ InsertBegin(s, nodes, metadata)
    \/ \E s \in sessions : InsertFlushChunk(s)
    \/ \E s \in sessions : InsertCommit(s)
    \/ \E s \in sessions : InsertFail(s)

Readers(requesters) ==
    \/ \E doc_id \in DocIds : GetDocument(doc_id)
    \/ \E requester \in requesters, q \in Queries, limit \in 0..MaxLimit, active_only \in BOOLEAN :
          SearchSimilarChunks(requester, q, limit, active_only)

\* the calls of ItemService that commit before they return
Lifecycle ==
    \/ \E owner \in Owners, item_id \in DocIds : GetItemById(owner, item_id)
    \/ \E owner \in Owners, item_id \in DocIds : DeleteItem(owner, item_id)
    \/ \E owner \in Owners, item_id \in DocIds : HardDeleteItem(owner, item_id)
    \/ \E owner \in Owners, item_id \in DocIds, active \in BOOLEAN :
          UpdateItem(owner, item_id, active)

DeleteConversationItems ==
    \/ \E conversation \in Convs, owner \in Owners, permanent \in BOOLEAN :
          BulkQuery(conversation, owner, permanent)
    \/ \E item_id \in DocIds : BulkMark(item_id)
    \/ BulkCommit

\* one insert_document call at a time, with readers and the single-document
\* operations of ItemService
Next ==
    \/ InsertDocument({1}, NodeLists)
    \/ Readers({"A"})
    \/ Lifecycle

Spec == Init /\ [][Next]_vars

\* insert_document calls that overlap, with readers; hard_delete_item frees
\* an id for the next ingestion
NextConc ==
    \/ InsertDocument(Sessions, NodeLists)
    \/ Readers({"A"})
    \/ \E owner \in Owners, item_id \in DocIds : HardDeleteItem(owner, item_id)

SpecConc == Init /\ [][NextConc]_vars

\* delete_conversation_items running step by step beside the other requests
\* that use the shared session; the documents have one chunk each
NextBulk ==
    \/ InsertDocument({1}, {nodes \in NodeLists : Len(nodes) = 1 /\ nodes[1].embedding # NULL})
    \/ DeleteConversationItems
    \/ Lifecycle

SpecBulk == Init /\ [][NextBulk]_vars

\* searches under both plans of the planner and with any limit (a negative
\* one, 0, the small ones and 1001), over what one insert_document at a time
\* and delete_item leave in the tables
Search(limits) ==
    \/ \E q \in Queries, limit \in limits, active_only \in BOOLEAN :
          SearchSimilarChunks("A", q, limit, active_only)
    \/ \E q \in Queries, limit \in limits, active_only \in BOOLEAN :
          SearchSimilarChunksIvfflat("A", q, limit, active_only)

NextSearch ==
    \/ InsertDocument({1}, NodeLists)
    \/ Search((-1..MaxLimit) \cup {1001})
    \/ \E owner \in Owners, item_id \in DocIds : DeleteItem(owner, item_id)

SpecSearch == Init /\ [][NextSearch]_vars

\* the listings of ItemService and of the GET items route, over documents
\* that are ingested, soft-deleted and put back
Listings ==
    \/ \E owner \in Owners, arg \in ActiveOnlyArgs : GetItemsByOwner(owner, arg)
    \/ \E conversation \in Convs, arg \in ActiveOnlyArgs :
          GetItemsByConversation(conversation, arg)
    \/ \E search_term \in SearchTerms, owner \in Owners, mime_type \in {"None", "m"},
          arg \in ActiveOnlyArgs :
          SearchItems(search_term, owner, mime_type, arg)
    \/ \E user \in Owners, search \in SearchTerms, mime_type \in {"None", "m"},
          conversation_id \in Convs \cup {"None"}, arg \in ActiveOnlyArgs :
          GetItems(user, search, mime_type, conversation_id, arg)

NextList ==
    \/ InsertDocument({1}, {nodes \in NodeLists : Len(nodes) = 1 /\ nodes[1].embedding # NULL})
    \/ Listings
    \/ \E owner \in Owners, item_id \in DocIds : DeleteItem(owner, item_id)
    \/ \E owner \in Owners, item_id \in DocIds : UpdateItem(owner, item_id, TRUE)

SpecList == Init /\ [][NextList]_vars

\* insert_document calls for the one id d2 that overlap in any way, with
\* hard_delete_item to free the id
NextRace ==
    \/ \E s \in Sessions, nodes \in NodeLists, metadata \in {m \in Metadata : m.id = "d2"} :
          InsertBegin(s, nodes, metadata)
    \/ \E s \in Sessions : InsertResume(s)
    \/ \E s \in Sessions : InsertFlushChunk(s)
    \/ \E s \in Sessions : InsertCommit(s)
    \/ \E s \in Sessions : InsertFail(s)
    \/ \E owner \in Owners : HardDeleteItem(owner, "d2")

SpecRace == Init /\ [][NextRace]_vars

\* insert_document with any metadata, for documents of at most one chunk
NextMeta ==
    \/ \E nodes \in {l \in NodeLists : Len(l) =< 1}, metadata \in MetadataInputs :
          InsertBegin(1, nodes, metadata)
    \/ InsertFlushChunk(1)
    \/ InsertCommit(1)
    \/ InsertFail(1)
    \/ \E doc_id \in DocIds : GetDocument(doc_id)
    \/ \E owner \in Owners, item_id \in DocIds : HardDeleteItem(owner, item_id)

SpecMeta == Init /\ [][NextMeta]_vars

\* the nodes of an ingestion by page label: none, "1", "01", "2", "iv"
PageLabels == {NoLabel, IntLabel(1), PaddedLabel(1), IntLabel(2), TextLabel}
PageNodes == {[page_label |-> l, text |-> "t1", embedding |-> <<1, 0>>] : l \in PageLabels}
PageNodeLists == UNION {[1..n -> PageNodes] : n \in 0..MaxNodes}

\* insert_document, one call at a time, for nodes with any page labels;
\* hard_delete_item frees an id for the next ingestion
NextPage ==
    \/ InsertDocument({1}, PageNodeLists)
    \/ \E owner \in Owners, item_id \in DocIds : HardDeleteItem(owner, item_id)

SpecPage == Init /\ [][NextPage]_vars

\* ingestions of one chunk, the soft, hard and bulk deletes user A asks for,
\* and messages that cite the stored chunks
NextMsg ==
    \/ InsertDocument({1}, {nodes \in NodeLists : Len(nodes) = 1 /\ nodes[1].embedding # NULL})
    \/ \E id \in MessageIds, source \in {NULL} \cup {<<d, 1>> : d \in DocIds} :
          AddMessage(id, source)
    \/ \E item_id \in DocIds : DeleteItem("A", item_id)
    \/ \E item_id \in DocIds : HardDeleteItem("A", item_id)
    \/ \E permanent \in BOOLEAN : BulkQuery("c1", "A", permanent)
    \/ \E item_id \in DocIds : BulkMark(item_id)
    \/ BulkCommit

SpecMsg == Init /\ [][NextMsg]_vars

\* the mutating operations with storage failures: insert_document (whose
\* failures are InsertFail), and the deletes and updates user A asks for
NextFail ==
    \/ InsertDocument({1}, {nodes \in NodeLists : Len(nodes) = 1 /\ nodes[1].embedding # NULL})
    \/ \E item_id \in DocIds : DeleteItem("A", item_id)
    \/ \E item_id \in DocIds : HardDeleteItem("A", item_id)
    \/ \E item_id \in DocIds : UpdateItem("A", item_id, TRUE)
    \/ \E permanent \in BOOLEAN : BulkQuery("c1", "A", permanent)
    \/ \E item_id \in DocIds : BulkMark(item_id)
    \/ BulkCommit
    \/ \E op \in {"update_item", "delete_item", "hard_delete_item"}, item_id \in DocIds :
          CommitFails(op, "A", item_id)
    \/ BulkCommitFails
    \/ \E op \in {"get_item_by_id", "update_item", "delete_item", "hard_delete_item"},
          item_id \in DocIds : SessionRaises(op, "A", item_id)
    \/ BulkRaises

SpecFail == Init /\ [][NextFail]_vars

\* the steps of _process_folder
ProcessFolder ==
    \/ \E ok \in BOOLEAN : ProcessFolderEnter(ok)
    \/ \E item \in [kind : {"folder", "file"}, id : SubFolders \cup {RootFolder}],
          ok \in BOOLEAN : ProcessItem(item, ok)
    \/ ProcessFolderReturn

\* download_folder, one call at a time, on any drive and with any max_depth
\* from -2 on
NextDrive ==
    \/ \E tree \in Trees, max_depth \in (-2)..MaxDepth : DownloadFolder(tree, max_depth)
    \/ ProcessFolder

\* a call that has begun goes on until it returns
SpecDrive == Init /\ [][NextDrive]_vars /\ WF_vars(ProcessFolder)

ProcessDocument ==
    \/ \E chunks \in ChunkLists : ProcessBegin(chunks)
    \/ \E ok \in BOOLEAN : ProcessEmbed(ok)
    \/ ProcessReturn

\* db_manager.py:108-113 with embedding.py:24-33: insert_document is given the
\* nodes process_document has returned
InsertProcessed ==
    \/ /\ proc.pc = "returned"
       /\ \E metadata \in Metadata : InsertBegin(1, proc.nodes, metadata)
    \/ InsertFlushChunk(1)
    \/ InsertCommit(1)
    \/ InsertFail(1)

\* documents go from process_document to insert_document, one call of each at
\* a time, with get_document beside them
NextEmbed ==
    \/ ProcessDocument
    \/ InsertProcessed
    \/ \E doc_id \in DocIds : GetDocument(doc_id)

SpecEmbed == Init /\ [][NextEmbed]_vars

\* ---------------------------------------------------------------- properties
ItemsOf(rows, id) == {r \in rows : r.id = id}
ChunksOf(rows, id) == {e \in rows : e.item_id = id}

\* session s ends its insert_document call in this step by returning None
InsertAborts(s) ==
    /\ ins[s].pc = "flushing"
    /\ ins'[s].pc = "idle"
    /\ last'.op = "insert_document"
    /\ last'.result = "None"

\* C1: insert_document is all-or-nothing.  While a call is in flight none of
\* its rows is visible to a reader, and when a call fails after its Item row
\* and any number of its chunk rows were written (a failure at commit
\* included), the tables hold no Item row and no Embedding row of that id
\* when it returns.
C1_InFlightInvisible ==
    \A s \in Sessions :
        ins[s].pc = "flushing" =>
            /\ ItemsOf(items, ins[s].meta.id) = {}
            /\ ChunksOf(embeddings, ins[s].meta.id) = {}

C1_AbortLeavesNothing ==
    \A s \in Sessions :
        InsertAborts(s) =>
            /\ ItemsOf(items', ins[s].meta.id) = {}
            /\ ChunksOf(embeddings', ins[s].meta.id) = {}

C1_AllOrNothing == [](C1_InFlightInvisible) /\ [][C1_AbortLeavesNothing]_vars

\* a call of 2 nodes has failed on a storage error after the Item row and 1
\* chunk row, and nothing of the id is in the tables
C1_Witness ==
    /\ last.op = "insert_document"
    /\ last.result = "None"
    /\ last.flag
    /\ last.count = 2
    /\ last.rows = 1
    /\ ItemsOf(items, last.id) = {}
    /\ ChunksOf(embeddings, last.id) = {}

\* C2: a search issued on behalf of an owner returns no hit whose parent
\* Document is owned by somebody else.
C2_OwnerIsolation ==
    last.op = "search" =>
        \A k \in 1..Len(last.hits) : last.hits[k].owner = last.owner

\* C3: (item_id, page) is unique among the Embedding rows, and an ingestion
\* whose nodes repeat a page fails as a whole: it returns None and leaves both
\* tables as they were.
C3_PageUnique ==
    \A e1 \in embeddings, e2 \in embeddings :
        (e1.item_id = e2.item_id /\ e1.page = e2.page) => e1 = e2

RepeatsPage(nodes) ==
    \E i \in 1..Len(nodes), j \in 1..Len(nodes) :
        i # j /\ PageOf(nodes[i]) = PageOf(nodes[j])

C3_DuplicateFailsWhole ==
    \A s \in Sessions :
        (/\ ins[s].pc = "flushing"
         /\ ins'[s].pc = "idle"
         /\ RepeatsPage(ins[s].nodes)) =>
            /\ last'.result = "None"
            /\ items' = items
            /\ embeddings' = embeddings

C3_UniquePage == [](C3_PageUnique) /\ [][C3_DuplicateFailsWhole]_vars

\* an ingestion of 2 nodes was refused by the constraint at its second chunk,
\* and left nothing
C3_Witness ==
    /\ last.op = "insert_document"
    /\ last.result = "None"
    /\ ~last.flag
    /\ last.count = 2
    /\ last.rows = 1
    /\ ItemsOf(items, last.id) = {}
    /\ ChunksOf(embeddings, last.id) = {}

\* C4: from a delete_item that returned True until the Item is reactivated or
\* removed, no search with active_only=true returns a chunk of it, while a
\* search with active_only=false, run as a sequential scan that the limit
\* does not cut short, returns every chunk of it that has a vector; the soft
\* delete itself leaves the set of chunks eligible with active_only=false as
\* it was.
EligibleChunks(active_only) == {je[1] : je \in Joined(active_only)}

C4_SearchAfterSoftDelete ==
    last.op = "search" =>
        /\ last.flag =>
              \A k \in 1..Len(last.hits) : last.hits[k].doc_id \notin softDeleted
        /\ (~last.flag /\ last.plan = "seq" /\ Len(last.hits) < last.limit) =>
              \A e \in embeddings :
                  (e.item_id \in softDeleted /\ e.embedding # NULL) =>
                      \E k \in 1..Len(last.hits) :
                          /\ last.hits[k].doc_id = e.item_id
                          /\ last.hits[k].page = e.page

C4_SoftDeleteStep ==
    (last'.op = "delete_item" /\ last'.result = "True") =>
        /\ last'.id \in softDeleted'
        /\ EligibleChunks(FALSE)' = EligibleChunks(FALSE)
        /\ \A e \in EligibleChunks(TRUE)' : e.item_id # last'.id

C4_SoftDelete == [](C4_SearchAfterSoftDelete) /\ [][C4_SoftDeleteStep]_vars

\* a search with active_only=true, not cut short by its limit, has left out
\* the embedded chunk of a soft-deleted document
C4_Witness ==
    /\ last.op = "search"
    /\ last.flag
    /\ Len(last.hits) < last.limit
    /\ \E e \in embeddings : e.item_id \in softDeleted /\ e.embedding # NULL

\* C5: when hard_delete_item has returned True, get_document finds no row of
\* the id and no Embedding row has the id; in every step an Item row and its
\* Embedding rows leave the tables together, and no Embedding row is ever
\* without its Item.
C5_AfterHardDelete ==
    (last.op = "hard_delete_item" /\ last.result = "True") =>
        /\ GetDocumentRows(last.id) = {}
        /\ ChunksOf(embeddings, last.id) = {}

C5_NoOrphan == \A e \in embeddings : ItemsOf(items, e.item_id) # {}

C5_OneUnit ==
    \A id \in DocIds :
        (\/ ItemsOf(items, id) # {} /\ ItemsOf(items', id) = {}
         \/ \E e \in ChunksOf(embeddings, id) : e \notin embeddings') =>
            /\ ItemsOf(items', id) = {}
            /\ ChunksOf(embeddings', id) = {}

C5_HardDelete == [](C5_AfterHardDelete /\ C5_NoOrphan) /\ [][C5_OneUnit]_vars

\* hard_delete_item has removed a document that had 2 chunks
C5_Witness ==
    /\ last.op = "hard_delete_item"
    /\ last.result = "True"
    /\ last.rows = 2
    /\ ItemsOf(items, last.id) = {}
    /\ ChunksOf(embeddings, last.id) = {}

\* C6: delete_conversation_items touches only Items whose conversation and
\* owner both match: what it holds uncommitted are matching Items, each of its
\* steps leaves every other Item and its chunks as they were, the Items it
\* loads are exactly the matching ones, and deleted_count is their number.
Matches(r, conversation, owner) == r.conversation_id = conversation /\ r.owner = owner

C6_PendingMatches ==
    \A id \in pend.inactive \cup pend.deleted :
        /\ bulk.pc = "loop"
        /\ \E r \in items : r.id = id /\ Matches(r, bulk.conv, bulk.owner)

C6_Step ==
    last'.op = "delete_conversation_items" =>
        /\ \A r \in items :
              \/ bulk.pc = "loop" /\ Matches(r, bulk.conv, bulk.owner)
              \/ r \in items' /\ ChunksOf(embeddings', r.id) = ChunksOf(embeddings, r.id)
        /\ (bulk.pc = "idle" /\ bulk'.pc = "loop") =>
              /\ bulk'.matched =
                    Cardinality({r \in items : Matches(r, bulk'.conv, bulk'.owner)})
              /\ bulk'.todo = {r.id : r \in {x \in items : Matches(x, bulk'.conv, bulk'.owner)}}
        /\ (bulk.pc = "idle" /\ bulk'.pc = "idle") =>
              /\ last'.count = 0
              /\ \A r \in items : ~Matches(r, last'.conv, last'.owner)
        /\ (bulk.pc = "loop" /\ bulk'.pc = "idle") =>
              /\ last'.count = bulk.matched
              /\ \A r \in items' : r.id \in pend.inactive => ~r.active
              /\ \A r \in items' : r.id \notin pend.deleted

NotFound(op) == IF op = "get_item_by_id" THEN "None" ELSE "False"

C7_Step ==
    (/\ last'.op \in {"get_item_by_id", "delete_item", "hard_delete_item"}
     /\ \A r \in items : ~(r.id = last'.id /\ r.owner = last'.owner)) =>
        /\ last'.result = NotFound(last'.op)
        /\ items' = items
        /\ embeddings' = embeddings

C7_WrongOwnerIsNotFound == [][C7_Step]_vars

\* hard_delete_item has answered False for a stored Item of another owner
C7_Witness ==
    /\ last.op = "hard_delete_item"
    /\ last.result = "False"
    /\ \E r \in items : r.id = last.id /\ r.owner # last.owner
    /\ ChunksOf(embeddings, last.id) # {}

C9_OneRowPerId ==
    /\ \A r1 \in items, r2 \in items : r1.id = r2.id => r1 = r2
    /\ C3_PageUnique

C9_Step ==
    \A id \in DocIds :
        (last'.op = "insert_document" /\ ItemsOf(items, id) # {}) =>
            /\ ItemsOf(items', id) = ItemsOf(items, id)
            /\ ChunksOf(embeddings', id) = ChunksOf(embeddings, id)
            /\ last'.id = id => last'.result = "None"

C9_Reingest == [](C9_OneRowPerId) /\ [][C9_Step]_vars

\* insert_document was refused at the flush of its Item for an id that is
\* stored with chunks
C9_Witness ==
    /\ last.op = "insert_document"
    /\ last.result = "None"
    /\ ~last.flag
    /\ last.rows = 0
    /\ ItemsOf(items, last.id) # {}
    /\ ChunksOf(embeddings, last.id) # {}

\* C10: every hit of search_similar_chunks is a chunk with a vector, and with
\* active_only=true a chunk of an active Item.
C10_HitsEligible ==
    last.op = "search" =>
        \A k \in 1..Len(last.hits) :
            \E e \in embeddings, i \in items :
                /\ e.item_id = last.hits[k].doc_id
                /\ e.page = last.hits[k].page
                /\ i.id = e.item_id
                /\ e.embedding # NULL
                /\ last.flag => i.active

\* a search with active_only=true, not cut short by its limit, has returned a
\* hit while a chunk without vector of an active Item and an embedded chunk of
\* an inactive Item are stored
C10_Witness ==
    /\ last.op = "search"
    /\ last.flag
    /\ Len(last.hits) >= 1
    /\ Len(last.hits) < last.limit
    /\ \E e \in embeddings, i \in items :
          i.id = e.item_id /\ i.active /\ e.embedding = NULL
    /\ \E e \in embeddings, i \in items :
          i.id = e.item_id /\ ~i.active /\ e.embedding # NULL

\* C11: search_similar_chunks(query, limit=k) returns min(k, number of
\* eligible chunks) hits in order of non-increasing similarity, no eligible
\* chunk that is left out is strictly more similar than a returned one, and
\* with no eligible chunk the result is the empty list and not an error.
SimGt(a, b) == a[1] * b[2] > b[1] * a[2]
Min(a, b) == IF a < b THEN a ELSE b
IsHitOf(h, je) == h.doc_id = je[2].id /\ h.page = je[1].page
Returned(je) == \E k \in 1..Len(last.hits) : IsHitOf(last.hits[k], je)

C11_Ordered ==
    \A k \in 1..(Len(last.hits) - 1) :
        ~SimGt(last.hits[k + 1].similarity, last.hits[k].similarity)

C11_Nearest ==
    /\ Len(last.hits) = Min(last.limit, Cardinality(Joined(last.flag)))
    /\ \A je \in Joined(last.flag) :
          Returned(je) \/
          \A k \in 1..Len(last.hits) :
              \A q \in Queries :
                  ~SimGt(Similarity(q, je[1].embedding), last.hits[k].similarity)

C11_ExactTopK ==
    (last.op = "search" /\ last.limit >= 0) =>
        /\ last.result = "rows"
        /\ C11_Ordered
        /\ C11_Nearest

\* C11, amended: the hits are at most min(k, number of eligible chunks), each
\* a different eligible chunk, in order of non-increasing similarity, and with
\* no eligible chunk the result is the empty list and not an error; the count
\* is exactly the minimum and no chunk left out is strictly more similar than
\* a returned one when the statement runs as a sequential scan.
C11_TopKOfScanned ==
    (last.op = "search" /\ last.limit >= 0) =>
        /\ last.result = "rows"
        /\ C11_Ordered
        /\ Len(last.hits) =< Min(last.limit, Cardinality(Joined(last.flag)))
        /\ \A k \in 1..Len(last.hits) :
              \E je \in Joined(last.flag) : IsHitOf(last.hits[k], je)
        /\ \A j \in 1..Len(last.hits), k \in 1..Len(last.hits) :
              (last.hits[j].doc_id = last.hits[k].doc_id
                  /\ last.hits[j].page = last.hits[k].page) => j = k
        /\ last.plan = "seq" => C11_Nearest

\* an index scan has returned one hit where the limit is 2 and two chunks of
\* different similarity are eligible: the nearer one, the other is not in the
\* probed list
C11_Witness ==
    /\ last.op = "search"
    /\ last.plan = "ivfflat"
    /\ last.limit = 2
    /\ Len(last.hits) = 1
    /\ Cardinality(Joined(last.flag)) = 2
    /\ \E je \in Joined(last.flag) :
          \A q \in Queries : SimGt(last.hits[1].similarity, Similarity(q, je[1].embedding))

\* C12: a search called with k <= 0 or k > 1000 is rejected or clamped (it
\* fails, or returns what a search with some limit of 1..1000 returns), and no
\* search returns more than 1000 hits.
SearchOutcomes(plan, q, k, active_only) ==
    IF plan = "seq" THEN TopK(q, Joined(active_only), k)
    ELSE UNION {TopK(q, rows, k) : rows \in IndexScanned(q, active_only)}

C12_LimitChecked ==
    last.op = "search" =>
        /\ Len(last.hits) =< 1000
        /\ (last.limit =< 0 \/ last.limit > 1000) =>
              \/ last.result = "error"
              \/ \E k \in 1..1000, q \in Queries :
                    last.hits \in SearchOutcomes(last.plan, q, k, last.flag)

\* C13: a delete_item that returns True changes the active flag of its target
\* and nothing else: the Item row stays, every Embedding row stays as it was,
\* and every other Item row stays as it was.
C13_Step ==
    (last'.op = "delete_item" /\ last'.result = "True") =>
        /\ \E r \in items :
              /\ r.id = last'.id
              /\ items' = (items \ {r}) \cup {[r EXCEPT !.active = FALSE]}
        /\ embeddings' = embeddings

C13_SoftDeleteFrame == [][C13_Step]_vars

\* C14: when the embedding of a chunk fails, process_document raises and
\* hands no node to its caller; the failing call writes nothing, no
\* insert_document call begins until a later process_document has returned,
\* and so every Embedding row written or committed has a vector.
C14_FailedReturnsNothing ==
    proc.failed =>
        /\ proc.pc = "raised"
        /\ proc.nodes = <<>>
        /\ last.op = "process_document" => last.result = "Exception"

C14_NoPartialDocument ==
    /\ \A e \in embeddings : e.embedding # NULL
    /\ \A s \in Sessions :
          \A k \in 1..Len(ins[s].nodes) : ins[s].nodes[k].embedding # NULL

C14_FailedStep ==
    /\ (~proc.failed /\ proc'.failed) =>
          /\ items' = items
          /\ embeddings' = embeddings
          /\ ins' = ins
    /\ (proc.failed /\ last'.op = "insert_document") =>
          \E s \in Sessions : ins[s].pc # "idle"

C14_AbortOnEmbeddingFailure ==
    [](C14_FailedReturnsNothing /\ C14_NoPartialDocument) /\ [][C14_FailedStep]_vars

\* process_document has raised at the second of 2 chunks, after the first was
\* embedded, while a document is stored
C14_Witness ==
    /\ last.op = "process_document"
    /\ last.result = "Exception"
    /\ last.count = 2
    /\ last.rows = 2
    /\ proc.failed
    /\ proc.nodes = <<>>
    /\ items # {}

\* C15: when the embedding of one chunk fails for good, only that chunk is
\* marked: a process_document call that has ended has made the embedding call
\* for every chunk of the document and has handed back a node for each.
C15_OthersStillEmbedded ==
    proc.pc \in {"returned", "raised"} =>
        /\ proc.i = proc.n
        /\ Len(proc.nodes) = proc.n

\* C16: every Embedding row, written or committed, has the page, the text and
\* the vector of one and the same chunk of the splitter.
C16_OfOneChunk(e) ==
    \E c \in Chunks :
        /\ e.page = PageOf(c)
        /\ e.chunk_text = c.text
        /\ e.embedding = Embed(c.text)

C16_RowOfOneChunk ==
    /\ \A e \in embeddings : C16_OfOneChunk(e)
    /\ \A s \in Sessions : \A e \in TxEmbeddings(s) : C16_OfOneChunk(e)

\* a document of 2 chunks with different pages, texts and vectors has gone
\* through process_document and insert_document
C16_Witness ==
    /\ last.op = "insert_document"
    /\ last.result = "Item"
    /\ last.count = 2
    /\ \E e1 \in ChunksOf(embeddings, last.id), e2 \in ChunksOf(embeddings, last.id) :
          /\ e1.page # e2.page
          /\ e1.chunk_text # e2.chunk_text
          /\ e1.embedding # e2.embedding
          /\ e1.id[2] = 1
          /\ e2.id[2] = 2

\* C17: an insert_document whose metadata lacks the owner, the conversation,
\* the mime type or the uri (no key, None, or the empty string) returns None
\* without having written a row: no Item row with such a value is ever in a
\* transaction or in the table.
C17_InvalidMetadataRejected ==
    /\ \A r \in items : LackingKeys(r) = {}
    /\ \A s \in Sessions : \A r \in TxItems(s) : LackingKeys(r) = {}
    /\ (last.op = "insert_document" /\ last.lacking # {}) =>
          /\ last.result = "None"
          /\ last.rows = 0
          /\ ItemsOf(items, last.id) = {} \/ \A r \in ItemsOf(items, last.id) : LackingKeys(r) = {}

\* C18: of two insert_document calls for one id that overlap, at most one
\* commits: never two of them have written rows of the id, the rows of the
\* id after a commit are exactly those of the committing call, and the call
\* that waited behind a committed one returns None and changes nothing.
C18_OneWriter ==
    \A s \in Sessions, t \in Sessions :
        (s # t /\ ins[s].pc = "flushing" /\ ins[t].pc = "flushing") =>
            ins[s].meta.id # ins[t].meta.id

C18_CommitStep ==
    \A s \in Sessions :
        (ins[s].pc = "flushing" /\ ins'[s].pc = "idle" /\ last'.result = "Item") =>
            /\ ItemsOf(items, ins[s].meta.id) = {}
            /\ ChunksOf(embeddings, ins[s].meta.id) = {}
            /\ ItemsOf(items', ins[s].meta.id) = {ItemRow(ins[s].meta)}
            /\ ChunksOf(embeddings', ins[s].meta.id) =
                  {EmbeddingRow(i, ins[s].meta.id, ins[s].nodes[i]) :
                      i \in 1..Len(ins[s].nodes)}

C18_LoserStep ==
    \A s \in Sessions :
        (ins[s].pc = "waiting" /\ ins'[s].pc # "waiting"
            /\ ItemsOf(items, ins[s].meta.id) # {}) =>
            /\ ins'[s].pc = "idle"
            /\ last'.result = "None"
            /\ items' = items
            /\ embeddings' = embeddings

C18_OneIngestionWins ==
    [](C18_OneWriter) /\ [][C18_CommitStep /\ C18_LoserStep]_vars

\* a call of 2 nodes that waited behind another call for the same id was
\* refused after that one committed 1 chunk: the rows of the id are those
\* of the winner
C18_Witness ==
    /\ last.op = "insert_document"
    /\ last.result = "None"
    /\ last.waited
    /\ last.count = 2
    /\ last.rows = 0
    /\ Cardinality(ItemsOf(items, last.id)) = 1
    /\ Cardinality(ChunksOf(embeddings, last.id)) = 1

\* C19: a search beside an insert_document in flight sees nothing of it:
\* every hit is a committed chunk of a document no call in flight is writing,
\* and the committed chunks of a document appear all together, in the step in
\* which its insert_document commits, and change afterwards only by going
\* away together.
C19_HitsCommitted ==
    last.op = "search" =>
        \A k \in 1..Len(last.hits) :
            /\ \A s \in Sessions :
                  ins[s].pc = "flushing" => ins[s].meta.id # last.hits[k].doc_id
            /\ \E e \in ChunksOf(embeddings, last.hits[k].doc_id) :
                  e.page = last.hits[k].page /\ e.chunk_text = last.hits[k].chunk_text
            /\ ItemsOf(items, last.hits[k].doc_id) # {}

C19_WholeDocuments ==
    \A id \in DocIds :
        \/ ChunksOf(embeddings', id) = ChunksOf(embeddings, id)
        \/ ChunksOf(embeddings', id) = {}
        \/ \E s \in Sessions :
              /\ ins[s].pc = "flushing"
              /\ ins[s].meta.id = id
              /\ last'.op = "insert_document"
              /\ last'.result = "Item"
              /\ ChunksOf(embeddings', id) =
                    {EmbeddingRow(i, id, ins[s].nodes[i]) : i \in 1..Len(ins[s].nodes)}

C19_NoHalfInserted == [](C19_HitsCommitted) /\ [][C19_WholeDocuments]_vars

\* a search that its limit did not cut short has returned a hit of a committed
\* document while an insert_document of 2 nodes had written its Item and one
\* chunk with a vector
C19_Witness ==
    /\ last.op = "search"
    /\ Len(last.hits) >= 1
    /\ Len(last.hits) < last.limit
    /\ \E s \in Sessions :
          /\ ins[s].pc = "flushing"
          /\ Len(ins[s].nodes) = 2
          /\ ins[s].flushed = 1
          /\ ins[s].nodes[1].embedding # NULL

\* C20: a listing by owner, by conversation or by file-name search that does
\* not ask for inactive documents (active_only left out, or true) returns no
\* Item with active = false, through the service methods and through the GET
\* items route alike.
C20_DefaultListingsActive ==
    (/\ last.op \in {"get_items_by_owner", "get_items_by_conversation",
                      "search_items", "GET items"}
     /\ last.active_only # "false") =>
        \A i \in last.listed : i.active

\* the calls of ItemService that change or read one Item
SingleItemOps == {"get_item_by_id", "delete_item", "hard_delete_item", "update_item"}

\* C21: every storage operation works in a session of its own and releases
\* it on every exit path.  A DatabaseManager session whose call has returned
\* holds no row of an open transaction, and a request of ItemService starts
\* on a session that holds nothing of another request.
C21_ReleasedOnReturn ==
    \A s \in Sessions :
        ins[s].pc = "idle" => TxItems(s) = {} /\ TxEmbeddings(s) = {}

C21_Step == last'.op \in SingleItemOps => pend = NoPend

C21_OwnSession == [](C21_ReleasedOnReturn) /\ [][C21_Step]_vars

\* C25: a listing made for an owner (get_items_by_owner, search_items, and
\* the GET items route with or without a conversation of that owner) returns
\* only Items of that owner.
C25_ListedAreOwn ==
    (/\ last.op \in {"get_items_by_owner", "search_items", "GET items"}
     /\ last.result = "rows") =>
        \A i \in last.listed : i.owner = last.owner

\* C28: the commit of one request does not make the pending changes of
\* another request visible.  A step of a request for one Item leaves, in the
\* committed table, every other Item as it was that the session holds a
\* pending change of, so what a bulk delete has marked becomes visible only
\* when the bulk delete commits.
C28_Step ==
    last'.op \in SingleItemOps =>
        \A id \in (pend.inactive \cup pend.deleted) \ {last'.id} :
            /\ ItemsOf(items', id) = ItemsOf(items, id)
            /\ ChunksOf(embeddings', id) = ChunksOf(embeddings, id)

C28_NoLeakOnCommit == [][C28_Step]_vars

\* the page a label stands for, and two nodes that stand for one page
LabelPage(l) == IF l.kind = "none" THEN -1 ELSE l.n

SamePage(nodes) ==
    \E i \in 1..Len(nodes), j \in 1..Len(nodes) :
        /\ i # j
        /\ nodes[i].page_label.kind # "text"
        /\ nodes[j].page_label.kind # "text"
        /\ LabelPage(nodes[i].page_label) = LabelPage(nodes[j].page_label)

\* C26: insert_document stores each chunk under the number its page label
\* spells, or under -1 when the node has no label.  An ingestion that
\* returns an Item has nodes of pairwise different pages and has stored one
\* row per node under that page; an ingestion in which two nodes stand for
\* one page (the same label, or no label twice) returns None and leaves both
\* tables as they were.
C26_Step ==
    \A s \in Sessions :
        (ins[s].pc = "flushing" /\ ins'[s].pc = "idle") =>
            /\ last'.result = "Item" =>
                  /\ ~SamePage(ins[s].nodes)
                  /\ \A i \in 1..Len(ins[s].nodes) :
                        \E e \in embeddings' :
                            /\ e.id = <<ins[s].meta.id, i>>
                            /\ e.page = LabelPage(ins[s].nodes[i].page_label)
                  /\ Cardinality(ChunksOf(embeddings', ins[s].meta.id)) =
                        Len(ins[s].nodes)
            /\ SamePage(ins[s].nodes) =>
                  /\ last'.result = "None"
                  /\ items' = items
                  /\ embeddings' = embeddings

C26_StoredPages ==
    \A e \in embeddings : e.page = -1 \/ e.page \in {l.n : l \in PageLabels}

C26_PageFromLabel == [](C26_StoredPages) /\ [][C26_Step]_vars

\* a document is stored with one chunk under page -1 and one under page 1,
\* and the ingestion of another document with two nodes was refused at its
\* second chunk and left nothing
C26_Witness ==
    /\ last.op = "insert_document"
    /\ last.result = "None"
    /\ ~last.flag
    /\ last.count = 2
    /\ last.rows = 1
    /\ ItemsOf(items, last.id) = {}
    /\ ChunksOf(embeddings, last.id) = {}
    /\ \E r \in items :
          {e.page : e \in ChunksOf(embeddings, r.id)} = {-1, 1}

\* the folders that can be reached from the root, and how deep they lie
RECURSIVE Reachable(_, _)
Reachable(tree, f) ==
    \/ f = RootFolder
    \/ f \in SubFolders /\ tree[f] # "-" /\ Reachable(tree, tree[f])

RECURSIVE DepthOf(_, _)
DepthOf(tree, f) == IF f = RootFolder THEN 0 ELSE 1 + DepthOf(tree, tree[f])

ReachableFolders(tree) == {f \in SubFolders \cup {RootFolder} : Reachable(tree, f)}

\* C24: download_folder with max_depth = d >= 0 lists folders and fetches
\* files only at depths 0..d, the root being at depth 0; with max_depth = -1
\* a call in which no listing failed has, when it returns, listed every
\* folder that can be reached from the root and fetched the file of each;
\* and every call returns.
C24_WithinDepth ==
    \A x \in drive.listed \cup drive.downloaded :
        /\ Reachable(drive.tree, x[1])
        /\ x[2] = DepthOf(drive.tree, x[1])
        /\ drive.max_depth >= 0 => x[2] =< drive.max_depth

C24_Everything ==
    (drive.pc = "returned" /\ drive.max_depth = -1 /\ ~drive.listFailed) =>
        /\ {x[1] : x \in drive.listed} = ReachableFolders(drive.tree)
        /\ {x[1] : x \in drive.downloaded} = ReachableFolders(drive.tree) \ {"c"}

C24_Returns == (drive.pc = "running") ~> (drive.pc = "returned")

C27_ReferentialIntegrity ==
    /\ \A e \in embeddings : \E r \in items : r.id = e.item_id
    /\ \A m \in messages :
          \/ m.source_embedding_id = NULL
          \/ \E e \in embeddings : e.id = m.source_embedding_id

\* a bulk hard delete has removed a document whose chunk two messages cited,
\* while another document is stored: both messages are still stored and cite
\* nothing
C27_Witness ==
    /\ last.op = "delete_conversation_items"
    /\ last.result = "done"
    /\ last.flag
    /\ last.count = 1
    /\ Cardinality(embeddings) = 1
    /\ Cardinality(messages) = 2
    /\ \A m \in messages : m.source_embedding_id = NULL

\* C22: a storage failure during a mutating operation is rolled back in
\* full and does not stop the store from working.  The step in which
\* insert_document fails returns None and leaves both tables as they were;
\* the step in which an operation of ItemService fails leaves both tables as
\* they were and leaves nothing in the session that a later operation could
\* commit; and no operation fails because an earlier one has failed.
C22_Step ==
    /\ (last'.op = "insert_document" /\ last'.flag) =>
          /\ last'.result = "None"
          /\ items' = items
          /\ embeddings' = embeddings
    /\ last'.result = "error" =>
          /\ items' = items
          /\ embeddings' = embeddings
          /\ pend'.inactive = {}
          /\ pend'.deleted = {}
    /\ last'.result # "InvalidRequestError"

C22_FailureRollsBack == [][C22_Step]_vars

====
